---- MODULE Spec2Model ----
(***************************************************************************)
(* Stock portfolio tracker: the quote proxy (src/app/api/quote/route.ts)   *)
(* and the client page (src/app/page.tsx).                                  *)
(*                                                                          *)
(* Strings are sequences of one-character strings.  An optional value      *)
(* (undefined / null in the source) is the empty tuple Null, a present     *)
(* value v is Some(v) = <<v>>.  Numbers are integers; a quotient is kept   *)
(* as the exact pair numerator / denominator, a zero denominator standing  *)
(* for the IEEE results NaN and +-Infinity.  lastUpdated is display-only   *)
(* and is not part of the model.                                           *)
(***************************************************************************)
EXTENDS Integers, Sequences, FiniteSets, TLC

VARIABLES
    \* ---- server: one invocation of GET (route.ts) ----
    routePc,        \* "idle" | "fetching" (at `await fetch`) | "reading" (at
                    \* `await res.json()`) | "done"
    request,        \* the query parameters of the request being handled
    routeSymbols,   \* the local `symbols` of GET
    fetchUrl,       \* Null, or Some(symbol list sent upstream) once fetch was called
    upstream,       \* Null, or Some(outcome of the upstream fetch)
    response,       \* Null, or Some([status, body])
    \* ---- client: the Page component (page.tsx) ----
    mounted,        \* the Page component is mounted (it is unmounted when a
                    \* render throws)
    holdings,       \* useState<Holding[]>
    symbolsInput,   \* useState("") : the extra symbols text box
    isLoading,      \* useState(false)
    quotes,         \* useState<Record<string, Quote>>
    inflight,       \* refreshQuotes invocations suspended at `await fetch`
                    \* (stage "fetch") or at `await res.json()` (stage "json")
    nextSeq,        \* how many requests were triggered so far
    effectSymbols,  \* the `symbols` captured by the last run of the polling effect
    last            \* the last handler that wrote the component's state, with
                    \* its inputs (history)

routeVars == <<routePc, request, routeSymbols, fetchUrl, upstream, response>>
pageVars == <<mounted, holdings, symbolsInput, isLoading, quotes, inflight, nextSeq,
              effectSymbols, last>>
vars == <<routePc, request, routeSymbols, fetchUrl, upstream, response,
          mounted, holdings, symbolsInput, isLoading, quotes, inflight, nextSeq,
          effectSymbols, last>>

(***************************************************************************)
(* Bounds of the model.                                                     *)
(***************************************************************************)
MaxParamLen == 3
MaxItems == 1
MaxHoldings == 1
MaxRequests == 2

\* .slice(0, 50)
Cap == 50

(***************************************************************************)
(* Values and strings.                                                      *)
(***************************************************************************)
Null == <<>>
Some(v) == <<v>>

Min(a, b) == IF a < b THEN a ELSE b

\* UTF-16 code unit of the characters the model uses
CharCode(c) ==
    CASE c = " " -> 32
      [] c = "," -> 44
      [] c = "-" -> 45
      [] c = "0" -> 48
      [] c = "1" -> 49
      [] c = "2" -> 50
      [] c = "3" -> 51
      [] c = "A" -> 65
      [] c = "B" -> 66
      [] c = "C" -> 67
      [] c = "L" -> 76
      [] c = "S" -> 83
      [] c = "a" -> 97
      [] c = "b" -> 98
      [] c = "c" -> 99
      [] OTHER -> 120

\* String.prototype.toUpperCase, one character
UpperChar(c) ==
    CASE c = "a" -> "A"
      [] c = "b" -> "B"
      [] c = "c" -> "C"
      [] OTHER -> c

toUpperCase(s) == [i \in 1..Len(s) |-> UpperChar(s[i])]

IsSpace(c) == c = " "

RECURSIVE TrimStart(_)
TrimStart(s) ==
    IF s # <<>> /\ IsSpace(Head(s)) THEN TrimStart(Tail(s)) ELSE s

RECURSIVE TrimEnd(_)
TrimEnd(s) ==
    IF s # <<>> /\ IsSpace(s[Len(s)]) THEN TrimEnd(SubSeq(s, 1, Len(s) - 1)) ELSE s

\* String.prototype.trim
trim(s) == TrimEnd(TrimStart(s))

\* String.prototype.split(","): the pieces between consecutive commas
split(s) ==
    LET commas == {i \in 1..Len(s) : s[i] = ","}
        n == Cardinality(commas)
        \* position of the k-th comma; 0 before the first, Len(s) + 1 after the last
        pos(k) == IF k = 0 THEN 0
                  ELSE IF k = n + 1 THEN Len(s) + 1
                  ELSE CHOOSE i \in commas : Cardinality({j \in commas : j < i}) = k - 1
    IN [k \in 1..(n + 1) |-> SubSeq(s, pos(k - 1) + 1, pos(k) - 1)]

\* Array.prototype.join(",")
RECURSIVE join(_)
join(xs) ==
    IF xs = <<>> THEN <<>>
    ELSE IF Len(xs) = 1 THEN xs[1]
    ELSE xs[1] \o <<",">> \o join(Tail(xs))

\* .filter(Boolean) on strings: the empty string is falsy
NonEmpty(x) == x # <<>>
filterBoolean(xs) == SelectSeq(xs, NonEmpty)

\* .slice(0, n)
slice(xs, n) == SubSeq(xs, 1, Min(Len(xs), n))

\* a || b on optional strings: null, undefined and "" are falsy
Truthy(o) == o # Null /\ o[1] # <<>>
OrElse(a, b) == IF Truthy(a) THEN a ELSE b

(***************************************************************************)
(* Records keyed by string (Record<string, T>).                             *)
(***************************************************************************)
EmptyRecord == [k \in {} |-> Null]
Has(rec, k) == k \in DOMAIN rec
Put(rec, k, v) == [x \in (DOMAIN rec) \cup {k} |-> IF x = k THEN v ELSE rec[x]]

(***************************************************************************)
(* GET /api/quote (route.ts).                                               *)
(***************************************************************************)
\* searchParams.get("symbols") || searchParams.get("symbol")
SymbolsParam(req) == OrElse(req.symbols, req.symbol)

\* .map((s) => s.trim().toUpperCase())
MapTrimUpper(xs) == [i \in 1..Len(xs) |-> toUpperCase(trim(xs[i]))]

\* symbolsParam.split(",").map(...).filter(Boolean).slice(0, 50)
ParseSymbols(param) == slice(filterBoolean(MapTrimUpper(split(param))), Cap)

ErrorResponse(status, message) == [status |-> status, body |-> [error |-> message]]

\* `upstream ${res.status}`
UpstreamMessage(status) ==
    CASE status = 404 -> "upstream 404"
      [] status = 503 -> "upstream 503"
      [] OTHER -> "upstream"

\* err?.message || "fetch failed"
CatchMessage(message) == IF message = "" THEN "fetch failed" ELSE message

\* one iteration of `for (const item of items)`: the record stored under the
\* uppercased symbol
ItemQuote(item) ==
    [symbol |-> toUpperCase(item.symbol[1]),
     name |-> OrElse(OrElse(item.shortName, item.longName), item.symbol)[1],
     price |-> item.regularMarketPrice,
     previousClose |-> item.regularMarketPreviousClose,
     currency |-> item.currency]

\* data[item.symbol.toUpperCase()] = { ... }
StoreItem(data, item) == Put(data, toUpperCase(item.symbol[1]), ItemQuote(item))

\* for (const item of items) { ... } : after[i] is `data` after i iterations
BuildData(data, items) ==
    LET after[i \in 0..Len(items)] ==
            IF i = 0 THEN data ELSE StoreItem(after[i - 1], items[i])
    IN after[Len(items)]

Placeholder(s) ==
    [symbol |-> s, name |-> s, price |-> Null, previousClose |-> Null, currency |-> Null]

\* a loop that never fills in a missing symbol
EnsureRequestedSkip(data, symbols) == data

\* for (const s of symbols) if (!data[s]) data[s] = { symbol: s, name: s, ... }
\* The loop keeps every entry data has and gives each symbol that has none its
\* placeholder, at the symbol's first occurrence; later occurrences find it.
EnsureRequested(data, symbols) ==
    [k \in (DOMAIN data) \cup {symbols[i] : i \in 1..Len(symbols)} |->
        IF Has(data, k) THEN data[k] ELSE Placeholder(k)]

\* json?.quoteResponse?.result || []
ResultItems(up) == IF up.result = Null THEN <<>> ELSE up.result[1]

\* the try block of GET, given what the upstream fetch produced
Respond(symbols, up) ==
    IF up.kind = "reject" THEN ErrorResponse(500, CatchMessage(up.message))
    ELSE IF up.kind = "status" THEN ErrorResponse(502, UpstreamMessage(up.status))
    ELSE IF up.kind = "badjson" THEN ErrorResponse(500, CatchMessage(up.message))
    ELSE LET items == ResultItems(up) IN
         IF \E i \in 1..Len(items) : items[i].symbol = Null
         THEN \* item.symbol.toUpperCase() throws a TypeError
              ErrorResponse(500, CatchMessage(
                  "Cannot read properties of undefined (reading 'toUpperCase')"))
         ELSE [status |-> 200,
               body |-> [symbols |-> symbols,
                         data |-> EnsureRequested(BuildData(EmptyRecord, items), symbols)]]

\* the whole handler as a function of the request and the upstream outcome
GETResponse(req, up) ==
    IF ~Truthy(SymbolsParam(req)) THEN ErrorResponse(400, "symbols is required")
    ELSE Respond(ParseSymbols(SymbolsParam(req)[1]), up)

(***************************************************************************)
(* Inputs of the server model.                                              *)
(***************************************************************************)
ParamAlphabet == {"a", "B", ",", " "}

Strings(n) == UNION {[1..k -> ParamAlphabet] : k \in 0..n}

\* s repeated n times
Repeat(s, n) == [i \in 1..(n * Len(s)) |-> s[((i - 1) % Len(s)) + 1]]

\* "a,a,...,a,B" with Cap - 1, Cap and Cap + 1 entries before the B
LongParams == {Repeat(<<"a", ",">>, n) \o <<"B">> : n \in (Cap - 1)..(Cap + 1)}

Params == Strings(MaxParamLen) \cup LongParams

Requests ==
    {[symbols |-> p, symbol |-> Null] : p \in {Null} \cup {Some(x) : x \in Params}}
    \cup {[symbols |-> p, symbol |-> q] :
             p \in {Null, Some(<<>>)}, q \in {Some(<<"b">>), Some(<<>>)}}

Item(sym, short, long, price, prev, cur) ==
    [symbol |-> sym, shortName |-> short, longName |-> long,
     regularMarketPrice |-> price, regularMarketPreviousClose |-> prev,
     currency |-> cur]

ItemSet ==
    {Item(Some(<<"a">>), Some(<<"S">>), Some(<<"L">>), Some(5), Some(4), Some("USD")),
     Item(Some(<<"B">>), Some(<<>>), Null, Null, Null, Null),
     Item(Some(<<"C">>), Null, Some(<<"L">>), Some(0), Null, Some("EUR")),
     Item(Null, Null, Null, Some(1), Null, Null)}

ItemLists == UNION {[1..k -> ItemSet] : k \in 0..MaxItems}

Outcome(kind, status, message, result) ==
    [kind |-> kind, status |-> status, message |-> message, result |-> result]

UpstreamOutcomes ==
    {Outcome("reject", 0, "ECONNRESET", Null), Outcome("reject", 0, "", Null),
     Outcome("status", 503, "", Null), Outcome("status", 404, "", Null),
     Outcome("badjson", 200, "Unexpected token", Null),
     Outcome("ok", 200, "", Null)}
    \cup {Outcome("ok", 200, "", Some(xs)) : xs \in ItemLists}

(***************************************************************************)
(* The server as a process: the handler suspends at `await fetch` and at    *)
(* `await res.json()`.                                                      *)
(***************************************************************************)
\* lines 15-31: read the parameter, answer 400 or call fetch
RouteReceive(req) ==
    /\ routePc = "idle"
    /\ request' = Some(req)
    /\ upstream' = Null
    /\ IF ~Truthy(SymbolsParam(req))
       THEN /\ routePc' = "done"
            /\ routeSymbols' = <<>>
            /\ fetchUrl' = Null
            /\ response' = Some(ErrorResponse(400, "symbols is required"))
       ELSE /\ routePc' = "fetching"
            /\ routeSymbols' = ParseSymbols(SymbolsParam(req)[1])
            /\ fetchUrl' = Some(join(ParseSymbols(SymbolsParam(req)[1])))
            /\ response' = Null
    /\ UNCHANGED pageVars

\* lines 31-35: the fetch settles; a rejection or a non-ok status is answered
\* at once, otherwise res.json() is called and awaited
RouteFetchSettles(up) ==
    /\ routePc = "fetching"
    /\ upstream' = Some(up)
    /\ IF up.kind \in {"reject", "status"}
       THEN /\ routePc' = "done"
            /\ response' = Some(Respond(routeSymbols, up))
       ELSE /\ routePc' = "reading"
            /\ UNCHANGED response
    /\ UNCHANGED <<request, routeSymbols, fetchUrl>>
    /\ UNCHANGED pageVars

\* lines 35-69: res.json() settles and the response is built
RouteJsonSettles ==
    /\ routePc = "reading"
    /\ routePc' = "done"
    /\ response' = Some(Respond(routeSymbols, upstream[1]))
    /\ UNCHANGED <<request, routeSymbols, fetchUrl, upstream>>
    /\ UNCHANGED pageVars

RouteInit ==
    /\ routePc = "idle"
    /\ request = Null
    /\ routeSymbols = <<>>
    /\ fetchUrl = Null
    /\ upstream = Null
    /\ response = Null

(***************************************************************************)
(* The page (page.tsx): derived values.                                     *)
(***************************************************************************)
\* a < b in the order of Array.prototype.sort() on strings (UTF-16 code units)
RECURSIVE StrLess(_, _)
StrLess(a, b) ==
    IF b = <<>> THEN FALSE
    ELSE IF a = <<>> THEN TRUE
    ELSE IF CharCode(Head(a)) # CharCode(Head(b)) THEN CharCode(Head(a)) < CharCode(Head(b))
    ELSE StrLess(Tail(a), Tail(b))

\* Array.from(set).sort()
RECURSIVE SortSet(_)
SortSet(S) ==
    IF S = {} THEN <<>>
    ELSE LET m == CHOOSE x \in S : \A y \in S \ {x} : StrLess(x, y)
         IN <<m>> \o SortSet(S \ {m})

Range(xs) == {xs[i] : i \in 1..Len(xs)}

\* useMemo(..., [holdings, symbolsInput])
Symbols(hs, input) ==
    SortSet({toUpperCase(hs[i].symbol) : i \in 1..Len(hs)}
            \cup Range(filterBoolean(MapTrimUpper(split(input)))))

\* quotes[h.symbol.toUpperCase()]
QuoteFor(qs, h) ==
    IF Has(qs, toUpperCase(h.symbol)) THEN Some(qs[toUpperCase(h.symbol)]) ELSE Null

\* q?.price ?? null
PriceOrNull(q) == IF q = Null THEN Null ELSE q[1].price

\* a JavaScript value found in a numeric field of a holding: a number, the
\* number NaN, or a string (an imported file is not validated)
JsNumber(n) == [type |-> "number", num |-> n, text |-> <<>>]
NaN == [type |-> "NaN", num |-> 0, text |-> <<>>]
JsString(s) == [type |-> "string", num |-> 0, text |-> s]

IsNaN(v) == v.type = "NaN"

IsDigit(c) == c \in {"0", "1", "2", "3", "4", "5", "6", "7", "8", "9"}

DigitValue(c) == CHOOSE d \in 0..9 : ToString(d) = c

\* Number(s) of a string of the inputs: blank is 0, decimal digits are their
\* value, anything else is NaN
StringToNumber(s) ==
    LET t == trim(s)
        value[i \in 0..Len(t)] ==
            IF i = 0 THEN 0 ELSE value[i - 1] * 10 + DigitValue(t[i])
    IN IF \A i \in 1..Len(t) : IsDigit(t[i]) THEN JsNumber(value[Len(t)]) ELSE NaN

\* the ToNumber conversion the arithmetic and relational operators apply
ToNumber(v) == IF v.type = "string" THEN StringToNumber(v.text) ELSE v

\* a * b
Multiply(a, b) ==
    LET x == ToNumber(a)
        y == ToNumber(b)
    IN IF IsNaN(x) \/ IsNaN(y) THEN NaN ELSE JsNumber(x.num * y.num)

\* a + b on numbers
Plus(a, b) == IF IsNaN(a) \/ IsNaN(b) THEN NaN ELSE JsNumber(a.num + b.num)

\* a - b on numbers
Minus(a, b) == IF IsNaN(a) \/ IsNaN(b) THEN NaN ELSE JsNumber(a.num - b.num)

\* a > 0
GreaterThanZero(a) == LET x == ToNumber(a) IN ~IsNaN(x) /\ x.num > 0

\* (a / b) * 100 as the exact quotient (a * 100) / b; NaN is written 0 / 0
Percent(a, b) ==
    IF IsNaN(a) \/ IsNaN(b) THEN [num |-> 0, den |-> 0]
    ELSE [num |-> a.num * 100, den |-> b.num]

\* pl != null && h.costPerShare > 0
PlPctDefined(pl, h) == pl # Null /\ GreaterThanZero(h.costPerShare)

\* the body of holdings.map((h) => ...), lines 226-231
Row(h, qs) ==
    LET price == PriceOrNull(QuoteFor(qs, h))
        marketValue == IF price # Null
                       THEN Some(Multiply(h.shares, JsNumber(price[1]))) ELSE Null
        pl == IF marketValue # Null
              THEN Some(Minus(marketValue[1], Multiply(h.shares, h.costPerShare)))
              ELSE Null
        plPct == IF PlPctDefined(pl, h)
                 THEN Some(Percent(pl[1], Multiply(h.shares, h.costPerShare)))
                 ELSE Null
    IN [price |-> price, marketValue |-> marketValue, pl |-> pl, plPct |-> plPct]

\* q?.price ?? 0 with q = quotes[h.symbol.toUpperCase()], lines 152-153
TotalsPrice(qs, h) ==
    LET q == QuoteFor(qs, h) IN
    IF q # Null /\ q[1].price # Null THEN q[1].price[1] ELSE 0

\* useMemo(..., [holdings, quotes]), lines 148-160
Totals(hs, qs) ==
    LET totalCost[i \in 0..Len(hs)] ==
            IF i = 0 THEN JsNumber(0)
            ELSE Plus(totalCost[i - 1], Multiply(hs[i].shares, hs[i].costPerShare))
        totalValue[i \in 0..Len(hs)] ==
            IF i = 0 THEN JsNumber(0)
            ELSE Plus(totalValue[i - 1],
                      Multiply(hs[i].shares, JsNumber(TotalsPrice(qs, hs[i]))))
        cost == totalCost[Len(hs)]
        value == totalValue[Len(hs)]
        pl == Minus(value, cost)
    IN [totalCost |-> cost, totalValue |-> value, pl |-> pl,
        plPct |-> IF GreaterThanZero(cost) THEN Percent(pl, cost)
                  ELSE [num |-> 0, den |-> 1]]

(***************************************************************************)
(* The page: inputs.                                                        *)
(***************************************************************************)
Holding(id, symbol, shares, cost) ==
    [id |-> id, symbol |-> symbol, shares |-> shares, costPerShare |-> cost]

\* the JSON value null as an element of a parsed array
JsonNull == [null |-> TRUE]

\* the text of the three input boxes and the value of Date.now() at the
\* click; a number box holds a number or, read through parseFloat, NaN (Null)
AddInputs ==
    {[symbol |-> <<"a">>, shares |-> Some(2), cost |-> Some(3), now |-> 0],
     [symbol |-> <<"a">>, shares |-> Some(2), cost |-> Some(3), now |-> 1],
     [symbol |-> <<" ", "B">>, shares |-> Some(2), cost |-> Some(0), now |-> 0],
     [symbol |-> <<" ">>, shares |-> Some(2), cost |-> Some(3), now |-> 0],
     [symbol |-> <<"a">>, shares |-> Null, cost |-> Some(3), now |-> 0],
     [symbol |-> <<"a">>, shares |-> Some(0), cost |-> Some(3), now |-> 0],
     [symbol |-> <<"a">>, shares |-> Some(2), cost |-> Some(-1), now |-> 0]}

\* the text typed into the extra symbols box
ExtraInputs == {<<>>, <<" ", "b">>}

\* the content of an imported file: text that does not parse, or a JSON value
File(kind, items) == [kind |-> kind, items |-> items]

\* what localStorage holds under "portfolio.holdings.v1" when the page
\* mounts: nothing, text that does not parse, a JSON value that is not an
\* array, a portfolio saved by an earlier visit, or an array with an element
\* that is not a holding
Stores ==
    {File("absent", <<>>),
     File("malformed", <<>>),
     File("object", <<>>),
     File("array", <<Holding(<<"A", "-", "0">>, <<"A">>, JsNumber(2), JsNumber(3))>>),
     File("array", <<JsonNull>>)}

\* the last three arrays hold an element that is not a holding: null, an
\* object without a symbol, and a holding whose numbers are strings
ImportFiles ==
    {File("malformed", <<>>),
     File("object", <<>>),
     File("array", <<>>),
     File("array", <<Holding(<<"x">>, <<"a">>, JsNumber(0), JsNumber(3))>>),
     File("array", <<Holding(<<"x">>, <<"a">>, JsNumber(1), JsNumber(3)),
                     Holding(<<"x">>, <<"B">>, JsNumber(2), JsNumber(0))>>),
     File("array", <<JsonNull>>),
     File("array", <<[id |-> <<"x">>]>>),
     File("array", <<Holding(<<"x">>, <<"a">>, JsString(<<"2">>),
                             JsString(<<"a", "b", "c">>))>>)}

\* what the quote endpoint's upstream does for a request of the page
PageUpstreams ==
    {Outcome("reject", 0, "ECONNRESET", Null),
     Outcome("status", 503, "", Null),
     Outcome("ok", 200, "",
             Some(<<Item(Some(<<"a">>), Some(<<"S">>), Some(<<"L">>), Some(5), Some(4),
                         Some("USD"))>>))}

\* how an awaited promise of refreshQuotes settles: it rejects, or it
\* resolves; the answer of the endpoint is read when res.json() resolves
FetchOutcomes ==
    {[net |-> "throw", up |-> Null]} \cup {[net |-> "answer", up |-> Some(u)] : u \in PageUpstreams}

(***************************************************************************)
(* The page: handlers.                                                      *)
(***************************************************************************)
Event(op, seq, kind, arg) == [op |-> op, seq |-> seq, kind |-> kind, arg |-> arg]

\* the effect of line 95 is pending: the rendered symbols differ from those
\* of its last run.  React runs a pending effect before it handles the next
\* user event, so the event handlers below wait for it; the old interval and
\* the outstanding fetches do not.
EffectPending == join(Symbols(holdings, symbolsInput)) # join(effectSymbols)

\* refreshQuotes up to its `await fetch`, lines 75-84
RefreshQuotes(syms) ==
    IF Len(syms) = 0
    THEN /\ quotes' = EmptyRecord
         /\ UNCHANGED <<isLoading, inflight, nextSeq>>
    ELSE /\ nextSeq < MaxRequests
         /\ isLoading' = TRUE
         /\ nextSeq' = nextSeq + 1
         /\ inflight' = inflight \cup {[seq |-> nextSeq + 1, symbols |-> syms,
                                        stage |-> "fetch"]}
         /\ UNCHANGED quotes

\* a completion that merges the response into the previous mapping
NewQuotesMerge(prev, body) ==
    IF "data" \in DOMAIN body
    THEN [k \in (DOMAIN prev) \cup (DOMAIN body.data) |->
              IF k \in DOMAIN body.data THEN body.data[k] ELSE prev[k]]
    ELSE prev

\* setQuotes(json.data || {}), line 86
NewQuotes(prev, body) ==
    IF "data" \in DOMAIN body THEN body.data ELSE EmptyRecord

\* the URL of line 83, as the query parameters the endpoint reads
QuoteRequest(syms) == [symbols |-> Some(join(syms)), symbol |-> Null]

\* the answer of the endpoint to the request of cycle r
Answer(r, out) == GETResponse(QuoteRequest(r.symbols), out.up[1])

\* "ok" for a 200 answer, "http_error" for another status, "throw" when the
\* awaited promise rejected
CompletionKind(r, out) ==
    IF out.net = "throw" THEN "throw"
    ELSE IF Answer(r, out).status = 200 THEN "ok"
    ELSE "http_error"

\* refreshQuotes resumes from `await fetch`, lines 84-85 and 87-91: a
\* rejection goes through catch and finally; otherwise res.json() is called
\* and awaited, and nothing has been written yet
FetchSettles(r, net) ==
    /\ mounted
    /\ r \in inflight
    /\ r.stage = "fetch"
    /\ IF net = "throw"
       THEN /\ inflight' = inflight \ {r}
            /\ isLoading' = FALSE
            /\ last' = Event("complete", r.seq, "throw", Null)
       ELSE /\ inflight' = (inflight \ {r}) \cup {[r EXCEPT !.stage = "json"]}
            /\ UNCHANGED <<isLoading, last>>
    /\ UNCHANGED <<mounted, holdings, symbolsInput, quotes, nextSeq, effectSymbols>>
    /\ UNCHANGED routeVars

\* refreshQuotes resumes from `await res.json()`, lines 85-91
CompleteRefresh(r, out) ==
    /\ mounted
    /\ r \in inflight
    /\ r.stage = "json"
    /\ inflight' = inflight \ {r}
    /\ quotes' = IF out.net = "throw" THEN quotes
                 ELSE NewQuotes(quotes, Answer(r, out).body)
    /\ isLoading' = FALSE
    /\ last' = Event("complete", r.seq, CompletionKind(r, out),
                     IF CompletionKind(r, out) = "ok"
                     THEN Some(Answer(r, out).body.data) ELSE Null)
    /\ UNCHANGED <<mounted, holdings, symbolsInput, nextSeq, effectSymbols>>
    /\ UNCHANGED routeVars

\* the effect of lines 95-99 runs: refreshQuotes() and a new interval whose
\* callback closes over the rendered symbols
RunEffect ==
    /\ mounted
    /\ EffectPending
    /\ RefreshQuotes(Symbols(holdings, symbolsInput))
    /\ effectSymbols' = Symbols(holdings, symbolsInput)
    /\ last' = Event("effect", nextSeq', "", Null)
    /\ UNCHANGED <<mounted, holdings, symbolsInput>>
    /\ UNCHANGED routeVars

\* setInterval(refreshQuotes, 60_000) fires
TimerRefresh ==
    /\ mounted
    /\ RefreshQuotes(effectSymbols)
    /\ last' = Event("timer", nextSeq', "", Null)
    /\ UNCHANGED <<mounted, holdings, symbolsInput, effectSymbols>>
    /\ UNCHANGED routeVars

\* the Refresh button, disabled={isLoading}
ManualRefresh ==
    /\ mounted
    /\ ~isLoading
    /\ ~EffectPending
    /\ RefreshQuotes(Symbols(holdings, symbolsInput))
    /\ last' = Event("manual", nextSeq', "", Null)
    /\ UNCHANGED <<mounted, holdings, symbolsInput, effectSymbols>>
    /\ UNCHANGED routeVars

\* `${symbol}-${Date.now()}`
HoldingId(symbol, now) == symbol \o <<"-", ToString(now)>>

\* the guard of line 105, on the parsed inputs
AddRejected(symbol, shares, cost) ==
    \/ symbol = <<>>
    \/ shares = Null
    \/ cost = Null
    \/ shares[1] <= 0
    \/ cost[1] < 0

\* lines 101-118
AddHoldingFromInputs(symbolText, shares, cost, now) ==
    LET symbol == trim(toUpperCase(symbolText)) IN
    /\ mounted
    /\ ~EffectPending
    /\ IF AddRejected(symbol, shares, cost)
       THEN UNCHANGED <<holdings, last>>
       ELSE /\ Len(holdings) < MaxHoldings
            /\ holdings' = <<Holding(HoldingId(symbol, now), symbol,
                                    JsNumber(shares[1]), JsNumber(cost[1]))>>
                           \o holdings
            /\ last' = Event("add", 0, "", Null)
    /\ UNCHANGED <<mounted, symbolsInput, isLoading, quotes, inflight, nextSeq,
                   effectSymbols>>
    /\ UNCHANGED routeVars

\* prev.filter((h) => h.id !== id)
KeepOther(h, id) == h.id # id

\* lines 120-122
RemoveHolding(id) ==
    /\ mounted
    /\ ~EffectPending
    /\ \E i \in 1..Len(holdings) : holdings[i].id = id
    /\ holdings' = SelectSeq(holdings, LAMBDA h : KeepOther(h, id))
    /\ last' = Event("remove", 0, "", Null)
    /\ UNCHANGED <<mounted, symbolsInput, isLoading, quotes, inflight, nextSeq,
                   effectSymbols>>
    /\ UNCHANGED routeVars

\* JSON.parse(text) returned (did not throw) and Array.isArray(parsed)
IsArray(file) == file.kind = "array"

\* h.symbol.toUpperCase() of line 66 throws: h is null or has no symbol
ElementThrows(h) == "symbol" \notin DOMAIN h

\* the render that follows setHoldings(items) throws at line 66
RenderThrows(items) == \E i \in 1..Len(items) : ElementThrows(items[i])

\* reader.onload, lines 126-134, and the render that setHoldings causes: when
\* the render throws, React unmounts the page and the state of its hooks is
\* gone
ImportJson(file) ==
    /\ mounted
    /\ ~EffectPending
    /\ last' = Event("import", 0, file.kind, Some(file.items))
    /\ IF IsArray(file) /\ RenderThrows(file.items)
       THEN /\ mounted' = FALSE
            /\ holdings' = <<>>
            /\ symbolsInput' = <<>>
            /\ isLoading' = FALSE
            /\ quotes' = EmptyRecord
            /\ inflight' = {}
            /\ nextSeq' = 0
            /\ effectSymbols' = <<>>
       ELSE /\ holdings' = IF IsArray(file) THEN file.items ELSE holdings
            /\ UNCHANGED <<mounted, symbolsInput, isLoading, quotes, inflight, nextSeq,
                           effectSymbols>>
    /\ UNCHANGED routeVars

\* onChange of the extra symbols box, line 195
SetSymbolsInput(text) ==
    /\ mounted
    /\ ~EffectPending
    /\ symbolsInput' = text
    /\ last' = Event("input", 0, "", Null)
    /\ UNCHANGED <<mounted, holdings, isLoading, quotes, inflight, nextSeq,
                   effectSymbols>>
    /\ UNCHANGED routeVars

\* holdings after the effect of lines 48-56; there is no Array.isArray test,
\* so a stored value that is not an array becomes the state as well
LoadHoldings(store) == IF store.kind = "array" THEN store.items ELSE <<>>

\* the render that follows setHoldings(parsed) calls holdings.forEach
\* (line 66); it throws on a value that is not an array and on an array with
\* an element that has no symbol, and React unmounts the page
LoadThrows(store) ==
    \/ store.kind = "object"
    \/ store.kind = "array" /\ RenderThrows(store.items)

\* the state of the hooks of lines 38-42 with no page on the screen
PageUnmounted ==
    /\ mounted = FALSE
    /\ holdings = <<>>
    /\ symbolsInput = <<>>
    /\ isLoading = FALSE
    /\ quotes = EmptyRecord
    /\ inflight = {}
    /\ nextSeq = 0
    /\ effectSymbols = <<>>
    /\ last = Event("mount", 0, "", Null)

\* the page after mount, lines 38-62 and 95-99: the effects have run once on
\* the initial empty holdings, so refreshQuotes set quotes to {}, and the
\* stored portfolio has been loaded; the polling effect is pending when the
\* load made the symbols non-empty
PageInit ==
    \E store \in Stores :
        IF LoadThrows(store)
        THEN PageUnmounted
        ELSE /\ mounted = TRUE
             /\ holdings = LoadHoldings(store)
             /\ symbolsInput = <<>>
             /\ isLoading = FALSE
             /\ quotes = EmptyRecord
             /\ inflight = {}
             /\ nextSeq = 0
             /\ effectSymbols = <<>>
             /\ last = Event("mount", 0, "", Null)

(***************************************************************************)
(* Specifications.                                                          *)
(***************************************************************************)
Init == RouteInit /\ PageInit

Next ==
    \/ \E in \in AddInputs :
           AddHoldingFromInputs(in.symbol, in.shares, in.cost, in.now)
    \/ \E i \in 1..Len(holdings) : RemoveHolding(holdings[i].id)
    \/ \E f \in ImportFiles : ImportJson(f)
    \/ \E t \in ExtraInputs : SetSymbolsInput(t)
    \/ RunEffect
    \/ TimerRefresh
    \/ ManualRefresh
    \/ \E r \in inflight, net \in {"throw", "answer"} : FetchSettles(r, net)
    \/ \E r \in inflight, out \in FetchOutcomes : CompleteRefresh(r, out)

\* the page, with the quote endpoint answering its requests
Spec == Init /\ [][Next]_vars

RouteNext ==
    \/ \E req \in Requests : RouteReceive(req)
    \/ \E up \in UpstreamOutcomes : RouteFetchSettles(up)
    \/ RouteJsonSettles

\* the quote endpoint alone, for any request and any upstream behaviour, with
\* no page open
InitRoute == RouteInit /\ PageUnmounted

SpecRoute == InitRoute /\ [][RouteNext]_vars

(***************************************************************************)
(* Properties of GET /api/quote, stated for SpecRoute.                      *)
(***************************************************************************)
Answered == routePc = "done"
Answered200 == Answered /\ response[1].status = 200

\* upstream returned a record whose uppercased symbol is s
UpstreamHas(s) ==
    LET items == ResultItems(upstream[1]) IN
    \E j \in 1..Len(items) : toUpperCase(items[j].symbol[1]) = s

\* C1: in every 200 response each echoed symbol is a key of data, and a symbol
\* with no upstream record of the same uppercased symbol maps to exactly
\* {symbol: s, name: s, price: null, previousClose: null, currency: null}
C1_EveryRequestedSymbolPresent ==
    Answered200 =>
        LET body == response[1].body IN
        \A i \in 1..Len(body.symbols) :
            LET s == body.symbols[i] IN
            /\ s \in DOMAIN body.data
            /\ ~UpstreamHas(s) =>
                   body.data[s] = [symbol |-> s, name |-> s, price |-> Null,
                                   previousClose |-> Null, currency |-> Null]

\* a 200 response where one requested symbol came back from upstream in
\* another casing and another requested symbol was filled in
C1_Witness ==
    /\ Answered200
    /\ \E s \in DOMAIN response[1].body.data :
           s \in Range(response[1].body.symbols) /\ UpstreamHas(s)
           /\ response[1].body.data[s].price # Null
    /\ \E s \in Range(response[1].body.symbols) :
           ~UpstreamHas(s) /\ response[1].body.data[s].name = s

\* the request names no symbol: no parameter, an empty one, or only commas
\* and whitespace
NoSymbolGiven(req) ==
    LET p == SymbolsParam(req) IN
    \/ p = Null
    \/ \A i \in 1..Len(p[1]) : p[1][i] \in {",", " "}

\* C2: a request whose symbol set is empty is answered 400 "symbols is
\* required" and no upstream fetch is performed
C2_EmptySetIsInvalidRequest ==
    (routePc # "idle" /\ NoSymbolGiven(request[1])) =>
        /\ Answered
        /\ response[1] = [status |-> 400, body |-> [error |-> "symbols is required"]]
        /\ fetchUrl = Null

\* the uppercased, trimmed, non-empty tokens of the parameter, in order
CleanTokens(req) == filterBoolean(MapTrimUpper(split(SymbolsParam(req)[1])))

\* the distinct tokens before position i
DistinctBefore(xs, i) == {xs[j] : j \in 1..(i - 1)}

\* C3: the list sent upstream and echoed is uppercased, has no blank entry, no
\* symbol twice and at most 50 entries, and a symbol is dropped only when 50
\* distinct symbols precede it
C3_EffectiveListDeduplicated ==
    fetchUrl # Null =>
        LET toks == CleanTokens(request[1]) IN
        /\ fetchUrl[1] = join(routeSymbols)
        /\ Answered200 => response[1].body.symbols = routeSymbols
        /\ \A i \in 1..Len(routeSymbols) :
               /\ routeSymbols[i] = toUpperCase(routeSymbols[i])
               /\ trim(routeSymbols[i]) # <<>>
        /\ \A i, j \in 1..Len(routeSymbols) : i # j => routeSymbols[i] # routeSymbols[j]
        /\ Len(routeSymbols) <= Cap
        /\ \A i \in 1..Len(toks) :
               toks[i] \notin Range(routeSymbols) =>
                   Cardinality(DistinctBefore(toks, i)) >= Cap

(***************************************************************************)
(* Properties of the page, stated for Spec.                                 *)
(***************************************************************************)
\* C4: a refresh that completes with a failure (an error status from the
\* endpoint, or a rejected fetch) leaves quotes as it was
C4_FailedRefreshKeepsQuotes ==
    [][(last'.op = "complete" /\ last'.kind \in {"http_error", "throw"})
           => quotes' = quotes]_vars

\* the quote of h has a price
PricePresent(h) ==
    /\ toUpperCase(h.symbol) \in DOMAIN quotes
    /\ quotes[toUpperCase(h.symbol)].price # Null

\* C5: for every holding, marketValue and pl are present exactly when the
\* quote's price is, and plPercent is present iff pl is present and the cost
\* basis shares * costPerShare is positive, so it is never a division by a
\* zero or negative cost basis
C5_PlPercentGuardedByCostBasis ==
    \A i \in 1..Len(holdings) :
        LET h == holdings[i]
            row == Row(h, quotes)
        IN /\ (row.marketValue # Null) <=> PricePresent(h)
           /\ (row.pl # Null) <=> PricePresent(h)
           /\ (row.plPct # Null) <=>
                  (row.pl # Null /\ GreaterThanZero(Multiply(h.shares, h.costPerShare)))
           /\ row.plPct # Null => row.plPct[1].den > 0

RECURSIVE SumCost(_)
SumCost(hs) ==
    IF hs = <<>> THEN JsNumber(0)
    ELSE Plus(Multiply(Head(hs).shares, Head(hs).costPerShare), SumCost(Tail(hs)))

\* the rows' market values, an absent one counted as 0
RECURSIVE SumMarketValue(_, _)
SumMarketValue(hs, qs) ==
    IF hs = <<>> THEN JsNumber(0)
    ELSE Plus(IF Row(Head(hs), qs).marketValue = Null THEN JsNumber(0)
              ELSE Row(Head(hs), qs).marketValue[1],
              SumMarketValue(Tail(hs), qs))

\* C6: the totals are always defined numbers and agree with the per-holding
\* derivation: totalCost is the sum of shares * costPerShare, totalValue the
\* sum of the market values with an absent one counted as 0, totalPl their
\* difference, totalPlPercent is totalPl / totalCost * 100 when totalCost > 0
\* and 0 otherwise; all four are 0 for the empty list
C6_TotalsAgreeWithRows ==
    LET t == Totals(holdings, quotes)
        cost == SumCost(holdings)
        value == SumMarketValue(holdings, quotes)
    IN /\ ~IsNaN(t.totalCost) /\ ~IsNaN(t.totalValue) /\ ~IsNaN(t.pl)
       /\ t.plPct.den # 0
       /\ t.totalCost = cost
       /\ t.totalValue = value
       /\ t.pl = Minus(value, cost)
       /\ t.plPct = IF GreaterThanZero(cost) THEN Percent(Minus(value, cost), cost)
                    ELSE [num |-> 0, den |-> 1]
       /\ holdings = <<>> =>
              t = [totalCost |-> JsNumber(0), totalValue |-> JsNumber(0),
                   pl |-> JsNumber(0), plPct |-> [num |-> 0, den |-> 1]]

\* C7: an import replaces the holdings with the file's content iff the content
\* parses to an array, otherwise it leaves them as they were; either way the
\* import itself leaves quotes alone
C7_ImportReplacesIffArray ==
    [][last'.op = "import" =>
           /\ holdings' = IF last'.kind = "array" THEN last'.arg[1] ELSE holdings
           /\ quotes' = quotes]_vars

\* C8: holding ids are unique in every reachable state
C8_HoldingIdsUnique ==
    \A i, j \in 1..Len(holdings) : i # j => holdings[i].id # holdings[j].id

\* C9: while the page is mounted, quotes changes only when a refresh sets it,
\* and a completion with a 200 answer sets it to exactly that answer's data
C9_CompletionReplacesWholesale ==
    [][mounted' =>
           /\ (last'.op = "complete" /\ last'.kind = "ok") => quotes' = last'.arg[1]
           /\ quotes' # quotes => last'.op \in {"complete", "effect", "timer", "manual"}]_vars

\* both requests have completed, the first one triggered last, and quotes holds
\* its data, which lacks a symbol the later request asked for
C9_Witness ==
    /\ last.op = "complete"
    /\ last.kind = "ok"
    /\ last.seq = 1
    /\ nextSeq = 2
    /\ inflight = {}
    /\ quotes = last.arg[1]
    /\ quotes # EmptyRecord
    /\ \E s \in Range(effectSymbols) : s \notin DOMAIN quotes

\* C10: isLoading is true exactly when a request is in flight
C10_LoadingTracksInflight == isLoading <=> inflight # {}

====
